---- MODULE Spec2Model ----
(***************************************************************************)
(* The IMOBOT chat widget of static/js/script.js as a state machine: the   *)
(* session id kept in localStorage, the message log (the children of       *)
(* #messages), the text input, the busy flag isTyping, the POST requests   *)
(* issued with fetch, and every activation of the async sendMessage with   *)
(* the await it is suspended at.                                           *)
(*                                                                         *)
(* A JavaScript string is a sequence of pieces: each whitespace character  *)
(* is a piece of its own, a run of other characters is one piece.  An      *)
(* emoji of the source is written as an ASCII piece such as "(plug)".      *)
(* A JSON value is a record tagged with its JavaScript type.  A number is  *)
(* held in thousandths (12500 is 12.5).                                    *)
(***************************************************************************)
EXTENDS Integers, Sequences, FiniteSets, TLC

VARIABLES
    storage,      \* localStorage['imobot_session_id']: a token, or NoToken
    loads,        \* page loads so far; also the reading of Date.now() at a load
    sessionId,    \* this.sessionId
    input,        \* this.messageInput.value
    isTyping,     \* this.isTyping
    sendDisabled, \* this.sendBtn.disabled
    log,          \* the children of this.messagesContainer, in document order
    messageCount, \* this.messageCount
    requests,     \* the fetch calls this page has made, in order
    calls,        \* the activations of sendMessage: the await each is parked at
    toasts,       \* the toasts _showToast has put up on this page, in order
    welcome       \* how far _showWelcomeMessage and its timers have run

vars == <<storage, loads, sessionId, input, isTyping, sendDisabled, log,
          messageCount, requests, calls, toasts, welcome>>

(***************************************************************************)
(* Bounds of the model.                                                    *)
(***************************************************************************)
MaxSends == 2      \* sends accepted in one page lifetime
MaxLoads == 2      \* page loads of the browser
MaxKeySends == 3   \* sends accepted on the page driven from the keyboard alone

(***************************************************************************)
(* JSON values as JavaScript sees them.                                    *)
(***************************************************************************)
Undefined == [t |-> "undefined"]
Null == [t |-> "null"]
Str(s) == [t |-> "string", s |-> s]
Num(m) == [t |-> "number", milli |-> m]
Arr(a) == [t |-> "array", a |-> a]
Obj(reply, type, data, suggestions) ==
    [t |-> "object", reply |-> reply, type |-> type, data |-> data,
     suggestions |-> suggestions]
Part(name, reference, description, price, quantity) ==
    [t |-> "part", product_name |-> name, internal_reference |-> reference,
     product_description |-> description, sales_price |-> price,
     quantity_on_hand |-> quantity]
\* The body of a response whose text is not JSON: res.json() rejects.
Unparsable == [t |-> "unparsable"]

\* ToBoolean: what `if (v)`, `!v` and `v ? a : b` test.
Truthy(v) ==
    CASE v.t = "undefined" -> FALSE
      [] v.t = "null" -> FALSE
      [] v.t = "string" -> v.s # <<>>
      [] v.t = "number" -> v.milli # 0
      [] OTHER -> TRUE

\* v.f: undefined for a field the value does not have; the caller has ruled
\* out null and undefined, whose property reads throw.
Get(v, f) == IF f \in DOMAIN v THEN v[f] ELSE Undefined

IsNullish(v) == v.t \in {"undefined", "null"}

(***************************************************************************)
(* String.prototype.trim                                                   *)
(***************************************************************************)
Whitespace == {" ", "\t", "\n"}

RECURSIVE TrimStart(_)
TrimStart(s) ==
    IF s # <<>> /\ Head(s) \in Whitespace THEN TrimStart(Tail(s)) ELSE s

RECURSIVE TrimEnd(_)
TrimEnd(s) ==
    IF s # <<>> /\ s[Len(s)] \in Whitespace
    THEN TrimEnd(SubSeq(s, 1, Len(s) - 1))
    ELSE s

Trim(s) == TrimEnd(TrimStart(s))

(***************************************************************************)
(* _restoreOrCreateSessionId                                               *)
(***************************************************************************)
NoToken == <<>>

\* `session_${Date.now()}_${Math.random().toString(36).slice(2, 10)}`
NewId(now, rnd) == <<"session_", ToString(now), "_", rnd>>

RandomSuffixes == {"k3f9a2xq"}

\* A faulty variant that stores a fresh id even when it has restored one.
RestoreAndRewrite(stored, readOk, writeOk, newId) ==
    IF readOk /\ stored # NoToken
    THEN [id |-> stored, storage |-> IF writeOk THEN newId ELSE stored]
    ELSE [id |-> newId, storage |-> IF writeOk THEN newId ELSE stored]

\* The id the constructor ends with, and what localStorage holds afterwards.
\* readOk, writeOk: whether getItem and setItem return or throw.
RestoreOrCreateSessionId(stored, readOk, writeOk, newId) ==
    IF readOk /\ stored # NoToken
    THEN [id |-> stored, storage |-> stored]
    ELSE [id |-> newId, storage |-> IF writeOk THEN newId ELSE stored]

(***************************************************************************)
(* The message log                                                         *)
(***************************************************************************)
\* _createMessageElement / _addMessage: the element of a message.
Message(role, text) == [kind |-> "message", role |-> role, text |-> text]

AddMessage(l, role, text) == Append(l, Message(role, text))

TypingIndicator == [kind |-> "typing"]

RECURSIVE RemoveFirst(_, _)
RemoveFirst(l, e) ==
    IF l = <<>> THEN <<>>
    ELSE IF Head(l) = e THEN Tail(l)
    ELSE <<Head(l)>> \o RemoveFirst(Tail(l), e)

\* _showTyping
ShowTyping(l, typing) == IF typing THEN l ELSE Append(l, TypingIndicator)

\* A faulty variant that removes the last child of the log instead.
HideTypingLast(l) == IF l = <<>> THEN l ELSE SubSeq(l, 1, Len(l) - 1)

\* _hideTyping: document.getElementById('typing-indicator') is the first one.
HideTyping(l) == RemoveFirst(l, TypingIndicator)

\* A faulty variant that leaves the status out of the message.
ServerErrorTextNoStatus(status) ==
    <<"(warning) Server error. Please try again.">>

ServerErrorText(status) ==
    <<"(warning) Server error (", ToString(status), "). Please try again.">>
ConnectionErrorText ==
    <<"(plug) Connection error. Please check if the backend server is running on port 5000.">>
FallbackText ==
    <<"I did not understand the response from the server. Please try rephrasing.">>
HelloText ==
    <<"Hello! (wave) I'm IMOBOT, your personal spare parts assistant.", "\n", "\n",
      "How can I help you today?">>

ServerErrorToast(status) ==
    [message |-> "Server error: " \o ToString(status), type |-> "error"]
NetworkErrorToast ==
    [message |-> "Network error - Is the backend running?", type |-> "error"]

(***************************************************************************)
(* _displayParts                                                           *)
(***************************************************************************)
TwoDigits(n) == IF n < 10 THEN "0" \o ToString(n) ELSE ToString(n)

\* Number.prototype.toFixed(2) of m thousandths, m >= 0: the hundredths
\* nearest to the number, the larger of two equally near.  (Of the numbers
\* ending in 5 thousandths only the multiples of 0.125 are exact doubles;
\* the prices of the model hold no other.)
ToFixed2(m) ==
    LET cents == (m + 5) \div 10
    IN  ToString(cents \div 100) \o "." \o TwoDigits(cents % 100)

\* String(n) of a number of the model.
NumberToString(m) ==
    LET f == m % 1000
    IN  IF f = 0 THEN ToString(m \div 1000)
        ELSE ToString(m \div 1000) \o "." \o
             (IF f % 100 = 0 THEN ToString(f \div 100)
              ELSE IF f % 10 = 0 THEN TwoDigits(f \div 10)
              ELSE (IF f < 100 THEN "0" ELSE "") \o TwoDigits(f))

\* const price = p.sales_price ? `${Number(p.sales_price).toFixed(2)} DZD` : ...
PriceString(p) ==
    IF Truthy(Get(p, "sales_price"))
    THEN ToFixed2(Get(p, "sales_price").milli) \o " DZD"
    ELSE "Price on request"

\* const stock = p.quantity_on_hand || 0
Stock(p) ==
    IF Truthy(Get(p, "quantity_on_hand")) THEN Get(p, "quantity_on_hand").milli
    ELSE 0

StockClass(stock) == IF stock = 0 THEN "out" ELSE IF stock < 5000 THEN "low" ELSE ""

StockText(stock) ==
    IF stock = 0 THEN "Out of stock"
    ELSE NumberToString(stock) \o " units available"

\* p.field || dflt, for the text fields of a part
TextOr(v, dflt) == IF Truthy(v) THEN v.s ELSE dflt

Card(p) ==
    [name |-> TextOr(Get(p, "product_name"), <<"Spare Part">>),
     reference |-> TextOr(Get(p, "internal_reference"), <<>>),
     description |-> TextOr(Get(p, "product_description"), <<>>),
     price |-> PriceString(p),
     stockClass |-> StockClass(Stock(p)),
     stockText |-> StockText(Stock(p))]

Min(a, b) == IF a < b THEN a ELSE b

MaxCards == 3

\* The log after _displayParts(parts), and whether it threw: reading
\* p.sales_price of a null entry throws before the container is appended.
DisplayParts(l, parts) ==
    LET shown == SubSeq(parts, 1, Min(Len(parts), MaxCards))
    IN  IF parts = <<>> THEN [log |-> l, threw |-> FALSE]
        ELSE IF \E i \in 1..Len(shown) : IsNullish(shown[i])
        THEN [log |-> l, threw |-> TRUE]
        ELSE [log |-> Append(l,
                  [kind |-> "parts",
                   cards |-> [i \in 1..Len(shown) |-> Card(shown[i])],
                   more |-> IF Len(parts) > MaxCards THEN Len(parts) - MaxCards
                            ELSE 0]),
              threw |-> FALSE]

(***************************************************************************)
(* _renderSuggestions                                                      *)
(***************************************************************************)
\* label.toLowerCase() throws for a label that is no string, before the
\* block of chips is appended.  The icon chosen for a chip is decoration
\* and is not part of the entry.
RenderSuggestions(l, list) ==
    IF list = <<>> THEN [log |-> l, threw |-> FALSE]
    ELSE IF \E i \in 1..Len(list) : list[i].t # "string"
    THEN [log |-> l, threw |-> TRUE]
    ELSE [log |-> Append(l,
              [kind |-> "suggestions",
               labels |-> [i \in 1..Len(list) |-> list[i].s]]),
          threw |-> FALSE]

(***************************************************************************)
(* _handleServerResponse                                                   *)
(***************************************************************************)
IsArray(v) == v.t = "array"

\* v === 'text'
StrictEquals(v, text) == v.t = "string" /\ v.s = text

\* line 278-280
RenderReply(l, data) ==
    IF Truthy(Get(data, "reply"))
    THEN AddMessage(l, "bot", Get(data, "reply").s)
    ELSE l

\* line 283-285
RenderParts(l, data) ==
    IF StrictEquals(Get(data, "type"), <<"parts">>) /\ IsArray(Get(data, "data"))
    THEN DisplayParts(l, Get(data, "data").a)
    ELSE [log |-> l, threw |-> FALSE]

\* line 288-290
RenderChips(l, data) ==
    IF IsArray(Get(data, "suggestions")) /\ Get(data, "suggestions").a # <<>>
    THEN RenderSuggestions(l, Get(data, "suggestions").a)
    ELSE [log |-> l, threw |-> FALSE]

\* line 292
NeedsFallback(data) == ~Truthy(Get(data, "reply")) /\ ~Truthy(Get(data, "data"))

\* line 292-294
RenderFallback(l, data) ==
    IF NeedsFallback(data) THEN AddMessage(l, "bot", FallbackText) ELSE l

\* The log and the counter after _handleServerResponse(data), and whether
\* it threw; what was appended before a throw stays appended.
HandleServerResponse(l, count, data) ==
    IF IsNullish(data) THEN [log |-> l, count |-> count, threw |-> TRUE]
    ELSE
    LET a == RenderReply(l, data)
        b == RenderParts(a, data)
        c == RenderChips(b.log, data)
    IN  IF b.threw THEN [log |-> b.log, count |-> count, threw |-> TRUE]
        ELSE IF c.threw THEN [log |-> c.log, count |-> count, threw |-> TRUE]
        ELSE [log |-> RenderFallback(c.log, data), count |-> count + 1,
              threw |-> FALSE]

(***************************************************************************)
(* The inputs of the model                                                 *)
(***************************************************************************)
\* What the user types into the input.
Inputs ==
    { <<>>,
      <<" ", " ">>,
      <<" ", " ", "M3", " ", "bearing", " ", " ">> }

Statuses == {200, 500}

\* res.ok
Ok(status) == status >= 200 /\ status =< 299

SamplePart ==
    Part(Str(<<"Bearing">>), Str(<<"M3">>), Undefined, Num(12500), Num(4000))

FoundIt == Str(<<"Found", " ", "it">>)

\* The response bodies the server answers with: text that is no JSON, the
\* empty object, a full answer, and an answer whose suggestions are numbers.
Bodies ==
    { Unparsable,
      Obj(Undefined, Undefined, Undefined, Undefined),
      Obj(FoundIt, Str(<<"parts">>), Arr(<<SamplePart>>),
          Arr(<<Str(<<"Search", " ", "Parts">>)>>)),
      Obj(FoundIt, Undefined, Undefined, Arr(<<Num(42000)>>)) }

(***************************************************************************)
(* The constructor and the page load                                       *)
(***************************************************************************)
\* The fields the constructor sets and the empty document it binds to.
FreshPage ==
    /\ input = <<>>
    /\ isTyping = FALSE
    /\ sendDisabled = FALSE
    /\ log = <<>>
    /\ messageCount = 0
    /\ requests = <<>>
    /\ calls = <<>>
    /\ toasts = <<>>
    /\ welcome = "timer500"

\* line 16: the session id of the first load, on a browser with empty storage
FirstLoad ==
    /\ loads = 1
    /\ \E readOk \in BOOLEAN, writeOk \in BOOLEAN, rnd \in RandomSuffixes :
         LET r == RestoreOrCreateSessionId(NoToken, readOk, writeOk, NewId(1, rnd))
         IN  sessionId = r.id /\ storage = r.storage

\* new IMOBOTChat()
Init == FirstLoad /\ FreshPage

\* location.reload() (window.clearChat) or a later visit: the document and
\* every pending callback of the old page are gone; localStorage stays.
PageLoad ==
    /\ loads < MaxLoads
    /\ loads' = loads + 1
    /\ \E readOk \in BOOLEAN, writeOk \in BOOLEAN, rnd \in RandomSuffixes :
         LET r == RestoreOrCreateSessionId(storage, readOk, writeOk,
                                           NewId(loads + 1, rnd))
         IN  sessionId' = r.id /\ storage' = r.storage
    /\ input' = <<>>
    /\ isTyping' = FALSE
    /\ sendDisabled' = FALSE
    /\ log' = <<>>
    /\ messageCount' = 0
    /\ requests' = <<>>
    /\ calls' = <<>>
    /\ toasts' = <<>>
    /\ welcome' = "timer500"

(***************************************************************************)
(* _showWelcomeMessage and its timers                                      *)
(***************************************************************************)
WelcomeSuggestions ==
    << <<"Search", " ", "Parts">>,
       <<"Track", " ", "Order", " ", "(Coming", " ", "Soon)">>,
       <<"Daily", " ", "Report", " ", "(Coming", " ", "Soon)">> >>

\* line 382-427: after 500 ms the welcome block is appended
WelcomeBlock ==
    /\ welcome = "timer500"
    /\ log' = Append(log, [kind |-> "welcome"])
    /\ welcome' = "timer800"
    /\ UNCHANGED <<storage, loads, sessionId, input, isTyping, sendDisabled,
                   messageCount, requests, calls, toasts>>

\* line 430-431
WelcomeHello ==
    /\ welcome = "timer800"
    /\ log' = AddMessage(log, "bot", HelloText)
    /\ welcome' = "timer300"
    /\ UNCHANGED <<storage, loads, sessionId, input, isTyping, sendDisabled,
                   messageCount, requests, calls, toasts>>

\* line 434-440
WelcomeChips ==
    /\ welcome = "timer300"
    /\ log' = RenderSuggestions(log,
                 [i \in 1..Len(WelcomeSuggestions) |-> Str(WelcomeSuggestions[i])]).log
    /\ welcome' = "shown"
    /\ UNCHANGED <<storage, loads, sessionId, input, isTyping, sendDisabled,
                   messageCount, requests, calls, toasts>>

(***************************************************************************)
(* sendMessage, up to its first await                                      *)
(***************************************************************************)
\* line 231: if (!raw || this.isTyping) return;
Rejects(value) == Trim(value) = <<>> \/ isTyping

\* A faulty variant that sends the message by GET.
RequestByGet(raw, sid) ==
    [method |-> "GET", url |-> "/api/chat",
     body |-> [message |-> raw, sessionId |-> sid]]

\* line 240-253: the request handed to fetch
Request(raw, sid) ==
    [method |-> "POST", url |-> "/api/chat",
     body |-> [message |-> raw, sessionId |-> sid]]

\* The activation parked at `await fetch(...)`.
AwaitingFetch == [pc |-> "fetch", status |-> 0, body |-> Undefined]

\* sendMessage() called with `value` in the input.
SendMessage(value) ==
    IF Rejects(value)
    THEN /\ input' = value
         /\ UNCHANGED <<isTyping, sendDisabled, log, messageCount, requests,
                        calls, toasts>>
    ELSE /\ log' = ShowTyping(AddMessage(log, "user", Trim(value)), isTyping)
         /\ input' = <<>>
         /\ messageCount' = messageCount + 1
         /\ isTyping' = TRUE
         /\ sendDisabled' = TRUE
         /\ requests' = Append(requests, Request(Trim(value), sessionId))
         /\ calls' = Append(calls, AwaitingFetch)
         /\ UNCHANGED toasts

\* The user edits the input.
UserType ==
    /\ \E text \in Inputs : input' = text
    /\ UNCHANGED <<storage, loads, sessionId, isTyping, sendDisabled, log,
                   messageCount, requests, calls, toasts, welcome>>

\* line 49: a click on the send button; a disabled button fires no click.
SendClick ==
    /\ ~sendDisabled
    /\ SendMessage(input)
    /\ UNCHANGED <<storage, loads, sessionId, welcome>>

\* line 51-56: Enter without Shift in the input
EnterKey ==
    /\ SendMessage(input)
    /\ UNCHANGED <<storage, loads, sessionId, welcome>>

\* The labels of the chips now in the log.
ChipLabels ==
    UNION { { log[i].labels[j] : j \in 1..Len(log[i].labels) } :
            i \in { k \in 1..Len(log) : log[k].kind = "suggestions" } }

\* line 369-372: a click on the chip of `label`
ChipClickOn(label) ==
    /\ SendMessage(label)
    /\ UNCHANGED <<storage, loads, sessionId, welcome>>

ChipClick == \E label \in ChipLabels : ChipClickOn(label)

(***************************************************************************)
(* sendMessage, after its awaits                                           *)
(***************************************************************************)
Finished == [pc |-> "done", status |-> 0, body |-> Undefined]

\* line 268-273: the catch block
CatchLog(l) == AddMessage(HideTyping(l), "bot", ConnectionErrorText)

\* A faulty variant that reports the error and leaves the busy state on.
CatchKeepsBusy(i, l) ==
    /\ log' = AddMessage(l, "bot", ConnectionErrorText)
    /\ toasts' = Append(toasts, NetworkErrorToast)
    /\ calls' = [calls EXCEPT ![i] = Finished]
    /\ UNCHANGED <<isTyping, sendDisabled>>

Catch(i, l) ==
    /\ isTyping' = FALSE
    /\ sendDisabled' = FALSE
    /\ log' = CatchLog(l)
    /\ toasts' = Append(toasts, NetworkErrorToast)
    /\ calls' = [calls EXCEPT ![i] = Finished]

\* Where the activation goes after line 255-257: to `await res.text()` of
\* a response that is not ok, or to `await res.json()`.
AfterFetch(status, body) ==
    IF Ok(status) THEN [pc |-> "json", status |-> status, body |-> body]
    ELSE [pc |-> "text", status |-> status, body |-> Undefined]

\* line 246-265: fetch resolves with a response; _hideTyping; res.text() or
\* res.json() is called and awaited.
FetchResolve(i) ==
    /\ calls[i].pc = "fetch"
    /\ \E status \in Statuses, body \in Bodies :
         calls' = [calls EXCEPT ![i] = AfterFetch(status, body)]
    /\ isTyping' = FALSE
    /\ sendDisabled' = FALSE
    /\ log' = HideTyping(log)
    /\ UNCHANGED <<storage, loads, sessionId, input, messageCount, requests,
                   toasts, welcome>>

\* line 246, 268-273: fetch rejects (the request never completed)
FetchReject(i) ==
    /\ calls[i].pc = "fetch"
    /\ Catch(i, log)
    /\ UNCHANGED <<storage, loads, sessionId, input, messageCount, requests,
                   welcome>>

\* line 258-262: res.text() settles; a rejection is replaced by ''
TextSettle(i) ==
    /\ calls[i].pc = "text"
    /\ log' = AddMessage(log, "bot", ServerErrorText(calls[i].status))
    /\ toasts' = Append(toasts, ServerErrorToast(calls[i].status))
    /\ calls' = [calls EXCEPT ![i] = Finished]
    /\ UNCHANGED <<storage, loads, sessionId, input, isTyping, sendDisabled,
                   messageCount, requests, welcome>>

\* line 265-273: res.json() settles.  A rejection, or a throw of
\* _handleServerResponse, lands in the catch block.
JsonSettle(i) ==
    /\ calls[i].pc = "json"
    /\ LET r == HandleServerResponse(log, messageCount, calls[i].body)
       IN  IF calls[i].body = Unparsable
           THEN Catch(i, log) /\ UNCHANGED messageCount
           ELSE IF r.threw
           THEN Catch(i, r.log) /\ UNCHANGED messageCount
           ELSE /\ log' = r.log
                /\ messageCount' = r.count
                /\ calls' = [calls EXCEPT ![i] = Finished]
                /\ UNCHANGED <<isTyping, sendDisabled, toasts>>
    /\ UNCHANGED <<storage, loads, sessionId, input, requests, welcome>>

(***************************************************************************)
(* The specifications                                                      *)
(***************************************************************************)
\* The model stops accepting sends at `cap` of them; a rejected send needs
\* no budget.
Within(cap, value) == Rejects(value) \/ Len(requests) < cap

Next ==
    \/ PageLoad
    \/ WelcomeBlock
    \/ WelcomeHello
    \/ WelcomeChips
    \/ UserType
    \/ (Within(MaxSends, input) /\ SendClick)
    \/ (Within(MaxSends, input) /\ EnterKey)
    \/ \E label \in ChipLabels : Within(MaxSends, label) /\ ChipClickOn(label)
    \/ \E i \in DOMAIN calls : FetchResolve(i)
    \/ \E i \in DOMAIN calls : FetchReject(i)
    \/ \E i \in DOMAIN calls : TextSettle(i)
    \/ \E i \in DOMAIN calls : JsonSettle(i)

Spec == Init /\ [][Next]_vars

\* Every issued network call settles: each activation parked at an await
\* is resumed.
Settle(i) ==
    /\ i \in DOMAIN calls
    /\ FetchResolve(i) \/ FetchReject(i) \/ TextSettle(i) \/ JsonSettle(i)

\* What the welcome sequence leaves in the log.
WelcomeLog ==
    RenderSuggestions(
        AddMessage(<<[kind |-> "welcome"]>>, "bot", HelloText),
        [i \in 1..Len(WelcomeSuggestions) |-> Str(WelcomeSuggestions[i])]).log

\* The page of the first load once its welcome sequence has run and before
\* the user has done anything.
WelcomeShown ==
    /\ FirstLoad
    /\ input = <<>>
    /\ isTyping = FALSE
    /\ sendDisabled = FALSE
    /\ log = WelcomeLog
    /\ messageCount = 0
    /\ requests = <<>>
    /\ calls = <<>>
    /\ toasts = <<>>
    /\ welcome = "shown"

\* What happens on a page after its welcome sequence.
PageNext ==
    \/ UserType
    \/ (Within(MaxSends, input) /\ SendClick)
    \/ (Within(MaxSends, input) /\ EnterKey)
    \/ \E label \in ChipLabels : Within(MaxSends, label) /\ ChipClickOn(label)
    \/ \E i \in DOMAIN calls : FetchResolve(i)
    \/ \E i \in DOMAIN calls : FetchReject(i)
    \/ \E i \in DOMAIN calls : TextSettle(i)
    \/ \E i \in DOMAIN calls : JsonSettle(i)

\* One page lifetime in which every network call settles.
FairSpec ==
    /\ WelcomeShown
    /\ [][PageNext]_vars
    /\ \A i \in 1..MaxSends : WF_vars(Settle(i))

\* A fresh page driven from the keyboard alone, before its welcome timers
\* fire.
KeyNext ==
    \/ UserType
    \/ (Within(MaxKeySends, input) /\ EnterKey)
    \/ \E i \in DOMAIN calls : FetchResolve(i)
    \/ \E i \in DOMAIN calls : FetchReject(i)
    \/ \E i \in DOMAIN calls : TextSettle(i)
    \/ \E i \in DOMAIN calls : JsonSettle(i)

KeySpec == Init /\ [][KeyNext]_vars

(***************************************************************************)
(* The renderer on every shape of response                                 *)
(***************************************************************************)
Replies == {Undefined, Str(<<>>), FoundIt}

Types == {Undefined, Str(<<"parts">>), Str(<<"text">>)}

\* sales_price: absent, null, 0, 0.125, 12.5, 12.344, 12.346, 999.996
Prices ==
    {Undefined, Null, Num(0), Num(125), Num(12500), Num(12344), Num(12346),
     Num(999996)}

\* quantity_on_hand: absent, 0, 4, 5
Quantities == {Undefined, Num(0), Num(4000), Num(5000)}

Parts ==
    { Part(name, Str(<<"M3">>), Undefined, price, quantity) :
        name \in {Undefined, Str(<<"Bearing">>)},
        price \in Prices, quantity \in Quantities }

Datas ==
    {Undefined, Null, Str(<<"none">>), Arr(<<>>), Arr(<<Null>>),
     Arr(<<SamplePart, SamplePart, SamplePart, SamplePart>>),
     Arr(<<SamplePart, SamplePart, SamplePart, Null>>)}
    \cup { Arr(<<p>>) : p \in Parts }

SuggestionLists ==
    {Undefined, Str(<<"Yes">>), Arr(<<>>), Arr(<<Str(<<"Yes">>), Str(<<"No">>)>>),
     Arr(<<Num(42000)>>)}

\* What res.json() can resolve with, and Unparsable when it rejects.
AllBodies ==
    {Unparsable, Null, Num(7000), Arr(<<>>)}
    \cup { Obj(reply, type, data, suggestions) :
             reply \in Replies, type \in Types, data \in Datas,
             suggestions \in SuggestionLists }

\* The page after the welcome sequence, one send and its 2xx response:
\* sendMessage is parked at `await res.json()`.
AwaitingJson ==
    /\ FirstLoad
    /\ input = <<>>
    /\ isTyping = FALSE
    /\ sendDisabled = FALSE
    /\ log = AddMessage(WelcomeLog, "user", <<"M3", " ", "bearing">>)
    /\ messageCount = 1
    /\ requests = <<Request(<<"M3", " ", "bearing">>, sessionId)>>
    /\ \E body \in AllBodies : calls = <<AfterFetch(200, body)>>
    /\ toasts = <<>>
    /\ welcome = "shown"

RenderNext == \E i \in DOMAIN calls : JsonSettle(i)

RenderSpec == AwaitingJson /\ [][RenderNext]_vars

(***************************************************************************)
(* What the claims speak of                                                *)
(***************************************************************************)
Range(q) == { q[k] : k \in DOMAIN q }

IsPrefix(a, b) == Len(a) =< Len(b) /\ SubSeq(b, 1, Len(a)) = a

IsTypingIndicator(e) == e.kind = "typing"

IsEntry(e) == e.kind # "typing"

IsUserMessage(e) == e.kind = "message" /\ e.role = "user"

\* The log without the typing placeholder.
Entries(l) == SelectSeq(l, IsEntry)

UserMessages(l) == SelectSeq(l, IsUserMessage)

\* The entries a step has put at the end of the log.
Appended == SubSeq(Entries(log'), Len(Entries(log)) + 1, Len(Entries(log')))

NoPlaceholder(l) == \A k \in DOMAIN l : ~IsTypingIndicator(l[k])

InFlight == { i \in DOMAIN calls : calls[i].pc # "done" }

SamePage == loads' = loads

\* The activation i is resumed by the step.
Resumed(i) ==
    SamePage /\ i \in DOMAIN calls /\ i \in DOMAIN calls' /\ calls[i] # calls'[i]

ConnectionErrorMessage == Message("bot", ConnectionErrorText)

FallbackMessage == Message("bot", FallbackText)

(***************************************************************************)
(* C1: at most one exchange is in flight: from the accepted send until     *)
(* its body has been rendered or its error message appended, no other      *)
(* send is accepted.                                                       *)
(***************************************************************************)
C1_SingleFlight == Cardinality(InFlight) =< 1

(***************************************************************************)
(* C2: every accepted send (input not empty after trimming, busy flag      *)
(* clear) appends exactly one user message holding the trimmed text,       *)
(* clears the input, sets the busy flag and issues exactly one POST with   *)
(* body {message: trimmed text, sessionId}; the POSTs issued are as many   *)
(* as the accepted sends, whatever their outcomes: nothing is retried.     *)
(***************************************************************************)
Accepted(value) == Trim(value) # <<>> /\ ~isTyping

AcceptEffects(value) ==
    /\ log' = log \o <<Message("user", Trim(value)), TypingIndicator>>
    /\ input' = <<>>
    /\ isTyping' = TRUE
    /\ requests' = Append(requests,
           [method |-> "POST", url |-> "/api/chat",
            body |-> [message |-> Trim(value), sessionId |-> sessionId]])

\* One POST per user message of the log, with its text and the session id.
PostsMatchSends ==
    LET sent == UserMessages(log)
    IN  /\ Len(requests) = Len(sent)
        /\ Len(calls) = Len(sent)
        /\ \A k \in DOMAIN requests :
             /\ requests[k].method = "POST"
             /\ requests[k].body =
                  [message |-> sent[k].text, sessionId |-> sessionId]

C2_AcceptedSendPostsOnce ==
    [][ /\ PostsMatchSends /\ PostsMatchSends'
        /\ ((SendClick \/ EnterKey) /\ Accepted(input)) => AcceptEffects(input)
        /\ \A label \in ChipLabels :
             (ChipClickOn(label) /\ Accepted(label)) => AcceptEffects(label)
        /\ (SamePage /\ requests' # requests) =>
             \E value \in {input} \cup ChipLabels :
                Accepted(value) /\ AcceptEffects(value)
        /\ (\E i \in DOMAIN calls : Resumed(i)) => requests' = requests
      ]_vars

\* Two sends were accepted and both exchanges ended, one of them in an error.
C2_Witness ==
    /\ Len(requests) = 2
    /\ requests[1].body.message = <<"M3", " ", "bearing">>
    /\ \A i \in DOMAIN calls : calls[i].pc = "done"
    /\ toasts # <<>>

(***************************************************************************)
(* C3: a sendMessage call whose input is empty after trimming, or made     *)
(* while the busy flag is set, is a silent no-op: nothing is appended, no  *)
(* request is issued, and input, counter and busy flag stay as they are;   *)
(* in particular, of two sends triggered before the first request's        *)
(* response arrives only one issues a request.                             *)
(***************************************************************************)
Rejected(value) == Trim(value) = <<>> \/ isTyping

\* The first half of the claim: the rejected call changes nothing.
C3_RejectedSendChangesNothing ==
    [][ /\ ((SendClick \/ EnterKey) /\ Rejected(input)) => UNCHANGED vars
        /\ \A label \in ChipLabels :
             (ChipClickOn(label) /\ Rejected(label)) =>
                /\ input' = label
                /\ UNCHANGED <<storage, loads, sessionId, isTyping, sendDisabled,
                               log, messageCount, requests, calls, toasts, welcome>>
      ]_vars

ResponsePending == \E i \in DOMAIN calls : calls[i].pc = "fetch"

\* The whole claim: while the response of a request has not arrived, no
\* further request is issued.
C3_RejectedSendIsNoOp ==
    [][ /\ ((SendClick \/ EnterKey) /\ Rejected(input)) => UNCHANGED vars
        /\ \A label \in ChipLabels :
             (ChipClickOn(label) /\ Rejected(label)) =>
                /\ input' = label
                /\ UNCHANGED <<storage, loads, sessionId, isTyping, sendDisabled,
                               log, messageCount, requests, calls, toasts, welcome>>
        /\ (SamePage /\ ResponsePending) => requests' = requests
      ]_vars

(***************************************************************************)
(* C4: a response that is not 2xx removes the typing placeholder, appends  *)
(* exactly one bot message holding the status code, raises one error       *)
(* notification and never reaches the renderer; a transport failure        *)
(* removes the placeholder, appends exactly one connection-error bot       *)
(* message and raises one error notification.  Either failure is reported  *)
(* once for its exchange.                                                  *)
(***************************************************************************)
HoldsStatus(text, status) == \E k \in DOMAIN text : text[k] = ToString(status)

IsServerErrorReport(added, status) ==
    /\ Len(added) = 1
    /\ added[1].kind = "message"
    /\ added[1].role = "bot"
    /\ HoldsStatus(added[1].text, status)

C4_FailureReportedOnce ==
    [][ \A i \in DOMAIN calls : Resumed(i) =>
          \* the response arrives and is not 2xx
          /\ (calls[i].pc = "fetch" /\ calls'[i].pc = "text") =>
                /\ ~Ok(calls'[i].status)
                /\ ~isTyping' /\ ~sendDisabled' /\ NoPlaceholder(log')
                /\ Appended = <<>>
                /\ toasts' = toasts
          \* its error is reported
          /\ calls[i].pc = "text" =>
                /\ calls'[i].pc = "done"
                /\ log' = log \o Appended
                /\ IsServerErrorReport(Appended, calls[i].status)
                /\ toasts' = Append(toasts,
                      [message |-> "Server error: " \o ToString(calls[i].status),
                       type |-> "error"])
                /\ messageCount' = messageCount
          \* the renderer is reached by 2xx responses only
          /\ calls'[i].pc = "json" => Ok(calls'[i].status)
          \* the request fails at transport level
          /\ (calls[i].pc = "fetch" /\ calls'[i].pc = "done") =>
                /\ ~isTyping' /\ ~sendDisabled' /\ NoPlaceholder(log')
                /\ Appended = <<ConnectionErrorMessage>>
                /\ toasts' = Append(toasts, NetworkErrorToast)
          \* a finished exchange reports nothing more
          /\ calls[i].pc # "done"
      ]_vars

\* A 500 and a transport failure have both been reported, once each.
C4_Witness ==
    /\ \A i \in DOMAIN calls : calls[i].pc = "done"
    /\ toasts = <<ServerErrorToast(500), NetworkErrorToast>>
    /\ Len(SelectSeq(log, LAMBDA e : e = ConnectionErrorMessage)) = 1
    /\ Len(SelectSeq(log, LAMBDA e : e = Message("bot", ServerErrorText(500)))) = 1

(***************************************************************************)
(* C5: the session token is created once per browser and is stable:        *)
(* storage is written only at widget startup and only when no token is     *)
(* stored, so a persisted token is never overwritten by a later load; the  *)
(* session id never changes within a page lifetime and every request       *)
(* carries it; storage failures never leave the widget without an id.      *)
(***************************************************************************)
IsSessionId(id) == id # NoToken /\ Head(id) = "session_"

EveryRequestCarriesSessionId ==
    \A k \in DOMAIN requests : requests[k].body.sessionId = sessionId

\* The claim as it stands: a write finds storage empty.
C5_WrittenOnlyWhenAbsent ==
    [][ /\ storage' # storage => (loads' = loads + 1 /\ storage = NoToken)
        /\ SamePage => sessionId' = sessionId
        /\ IsSessionId(sessionId') /\ EveryRequestCarriesSessionId'
      ]_vars

\* As amended: a write is made by a load that did not restore the stored
\* token, and stores the id that load created.
C5_WrittenOnlyWhenNotRestored ==
    [][ /\ storage' # storage =>
             /\ loads' = loads + 1
             /\ sessionId' # storage
             /\ storage' = sessionId'
        /\ (loads' = loads + 1 /\ sessionId' = storage) => storage' = storage
        /\ SamePage => sessionId' = sessionId
        /\ IsSessionId(sessionId') /\ EveryRequestCarriesSessionId'
      ]_vars

\* A second load has restored the token the first one stored, and a
\* request of that page carries it.
C5_Witness ==
    /\ loads = 2
    /\ storage = NewId(1, "k3f9a2xq")
    /\ sessionId = storage
    /\ requests # <<>>
    /\ EveryRequestCarriesSessionId

(***************************************************************************)
(* C6: for every response parsed to an object the renderer appends the     *)
(* fallback message exactly when neither reply nor data is present, never  *)
(* when a reply that is not empty is present; a response holding only a    *)
(* reply yields that one bot message and nothing else, and the empty       *)
(* object yields exactly the fallback message.                             *)
(***************************************************************************)
Present(body, field) == Truthy(Get(body, field))

\* The step hands the parsed body of activation i to the renderer.
Renders(i) == Resumed(i) /\ calls[i].pc = "json" /\ calls[i].body # Unparsable

C6_FallbackIffNoReplyNoData ==
    [][ \A i \in DOMAIN calls : (Renders(i) /\ calls[i].body.t = "object") =>
          LET body == calls[i].body
          IN  /\ (FallbackMessage \in Range(Appended)) <=>
                    (~Present(body, "reply") /\ ~Present(body, "data"))
              /\ Present(body, "reply") => FallbackMessage \notin Range(Appended)
              /\ (/\ Present(body, "reply")
                  /\ Get(body, "type") = Undefined
                  /\ Get(body, "data") = Undefined
                  /\ Get(body, "suggestions") = Undefined) =>
                    Appended = <<Message("bot", body.reply.s)>>
              /\ body = Obj(Undefined, Undefined, Undefined, Undefined) =>
                    Appended = <<FallbackMessage>>
      ]_vars

(***************************************************************************)
(* C7: the message log only grows: the entries of a later log (user        *)
(* messages, bot messages, part-card blocks, suggestion blocks) are those  *)
(* of the earlier log with entries appended at the end; none is removed,   *)
(* reordered or edited.                                                    *)
(***************************************************************************)
C7_LogAppendOnly == [][ SamePage => IsPrefix(Entries(log), Entries(log')) ]_vars

\* The placeholder has been shown and removed twice, around entries of
\* every kind.
C7_Witness ==
    /\ Len(calls) = 2
    /\ \A i \in DOMAIN calls : calls[i].pc = "done"
    /\ NoPlaceholder(log)
    /\ \E k \in DOMAIN log : log[k].kind = "parts"
    /\ ConnectionErrorMessage \in Range(log)
    /\ welcome = "shown"

(***************************************************************************)
(* C8: for every part with a price p >= 0, p = 0 included, the price of    *)
(* the card is p rounded to 2 decimal places followed by " DZD"; "Price    *)
(* on request" is shown only when the price is absent; the string is       *)
(* never "NaN" or "undefined".                                             *)
(***************************************************************************)
ExpectedPrice(price) ==
    IF price.t = "number" /\ price.milli >= 0
    THEN ToFixed2(price.milli) \o " DZD"
    ELSE "Price on request"

HasCards(body) ==
    /\ body.t = "object"
    /\ StrictEquals(body.type, <<"parts">>)
    /\ IsArray(body.data)
    /\ body.data.a # <<>>
    /\ \A k \in 1..Min(Len(body.data.a), MaxCards) : body.data.a[k].t = "part"

CardBlocks(added) == SelectSeq(added, LAMBDA e : e.kind = "parts")

C8_PriceOfEveryCard ==
    [][ \A i \in DOMAIN calls : (Renders(i) /\ HasCards(calls[i].body)) =>
          LET parts == calls[i].body.data.a
              blocks == CardBlocks(Appended)
          IN  /\ Len(blocks) = 1
              /\ \A k \in DOMAIN blocks[1].cards :
                   /\ blocks[1].cards[k].price = ExpectedPrice(parts[k].sales_price)
                   /\ blocks[1].cards[k].price \notin {"NaN", "undefined"}
      ]_vars

(***************************************************************************)
(* C9: if every issued network call settles, every accepted send is        *)
(* eventually followed by a state with the busy flag clear, the send       *)
(* button enabled and no typing placeholder in the log, whatever the       *)
(* outcome of the exchange.                                                *)
(***************************************************************************)
Idle == ~isTyping /\ ~sendDisabled /\ NoPlaceholder(log)

C9_EventuallyIdle == (isTyping /\ TypingIndicator \in Range(log)) ~> Idle

\* Both sends of the page were accepted, both exchanges failed, and the
\* widget is idle again.
C9_Witness ==
    /\ Idle
    /\ Len(calls) = 2
    /\ \A i \in DOMAIN calls : calls[i].pc = "done"
    /\ Len(toasts) = 2

(***************************************************************************)
(* C10: the connection-error message and its notification are produced     *)
(* only for an exchange whose request failed at transport level: an        *)
(* exchange whose request completed with a 2xx status never appends it,    *)
(* whatever the body of the response holds.                                *)
(***************************************************************************)
C10_ConnectionErrorOnlyOnTransportFailure ==
    [][ \A i \in DOMAIN calls :
          (Resumed(i) /\ calls[i].pc = "json" /\ Ok(calls[i].status)) =>
             /\ ConnectionErrorMessage \notin Range(Appended)
             /\ toasts' = toasts
      ]_vars

(***************************************************************************)
(* C11: every exchange that completed with a 2xx status and whose body     *)
(* parsed to an object appends at least one entry to the log when its      *)
(* response is rendered, whatever reply, type, data and suggestions hold   *)
(* (present, absent or empty): no accepted user message stays without a    *)
(* visible answer.  The formula reads the claim for the responses whose    *)
(* fields have the types the renderer expects; the others are a superset.  *)
(***************************************************************************)
\* reply and type are strings, data an array of parts, suggestions an array
\* of strings, each of them possibly absent.
Typed(body) ==
    /\ body.t = "object"
    /\ Get(body, "reply").t \in {"undefined", "string"}
    /\ Get(body, "type").t \in {"undefined", "string"}
    /\ Get(body, "data").t \in {"undefined", "array"}
    /\ Get(body, "data").t = "array" =>
          \A k \in DOMAIN Get(body, "data").a : Get(body, "data").a[k].t = "part"
    /\ Get(body, "suggestions").t \in {"undefined", "array"}
    /\ Get(body, "suggestions").t = "array" =>
          \A k \in DOMAIN Get(body, "suggestions").a :
             Get(body, "suggestions").a[k].t = "string"

C11_EveryResponseAnswered ==
    [][ \A i \in DOMAIN calls :
          (Renders(i) /\ Ok(calls[i].status) /\ Typed(calls[i].body)) =>
             Appended # <<>>
      ]_vars

====
